---- MODULE Spec2Model ----
(***************************************************************************)
(* Model of the multi-crop command of data_augment.py                      *)
(* (multi_crop_local_images): one source image of size w x h is cut into   *)
(* target_size x target_size squares on a grid whose steps are derived     *)
(* from the image size; each crop is saved under a name built from the     *)
(* index 2*i + j unless a readable file of that name already exists.       *)
(***************************************************************************)
EXTENDS Integers, Sequences, FiniteSets

\* Bounds of the explored inputs.
MaxDim == 7
MaxTarget == 3
MaxImages == 2    \* most source images of one cut-crop run
MaxSide == 4      \* longest side of a cut-crop source image

\* cut_crop_local_images(target_size=1024, n_crops=3)
n_crops == 3

VARIABLES
    pc,           \* position of the command within the body of the image loop
    w, h,         \* img.size of the opened image
    target_size,  \* --target-size option
    crop_cols, crop_rows,
    width_step, height_step,
    i, j,         \* loop variables of the two nested crop loops
    plan,         \* crop boxes and indices computed so far, in loop order
    files,        \* save directory: the saved crops, each named by its index
    saved,        \* boxes handed to new_img.save during this run, in order
    rerun,        \* TRUE once the command has been run again on the directory
    cut_pc,       \* position of the cut-crop command
    full_res_img_paths,  \* cut-crop: the source images found, in walk order
    cut_pos,      \* cut-crop: position of the image loop in that list
    cut_files     \* cut-crop: the .jpg files of its save directory

cutvars == <<cut_pc, full_res_img_paths, cut_pos, cut_files>>

multivars == <<pc, w, h, target_size, crop_cols, crop_rows, width_step,
               height_step, i, j, plan, files, saved, rerun>>

vars == <<multivars, cutvars>>

\* ---------------------------------------------------------------- helpers

\* np.rint(a / b) for positive integers: nearest integer, exact halves go to
\* the even neighbour.
rint(a, b) ==
    LET q == a \div b
        r == a % b
    IN  IF 2 * r < b THEN q
        ELSE IF 2 * r > b THEN q + 1
        ELSE IF q % 2 = 0 THEN q ELSE q + 1

\* int(a / b): true division, then truncation toward zero; a zero divisor
\* raises ZeroDivisionError.
IntTrueDiv(a, b) ==
    IF b = 0 THEN [raised |-> TRUE, val |-> 0]
    ELSE IF a >= 0 THEN [raised |-> FALSE, val |-> a \div b]
    ELSE [raised |-> FALSE, val |-> 0 - ((0 - a) \div b)]

\* all(target_size > i for i in (h, w))
SkipInverted(height, width, ts) == ts < height /\ ts < width
SkipImage(height, width, ts) == ts > height /\ ts > width

\* int(np.rint(axis / ts)) if axis / ts > 1 else 0
CropCountHalfUp(axis, ts) ==
    IF axis > ts THEN (2 * axis + ts) \div (2 * ts) ELSE 0
CropCountMinusOne(axis, ts) ==
    IF axis > ts THEN rint(axis, ts) - 1 ELSE 0
CropCountNoEdgeGuard(axis, ts) ==
    IF axis >= ts THEN rint(axis, ts) ELSE 0
CropCount(axis, ts) ==
    IF axis > ts THEN rint(axis, ts) ELSE 0

\* int((axis - ts) / count) if count != 0 else 0
StepUnguarded(axis, ts, count) == IntTrueDiv(axis - ts, count)
StepWholeAxis(axis, ts, count) ==
    IF count # 0 THEN IntTrueDiv(axis, count) ELSE [raised |-> FALSE, val |-> 0]
StepCountPlusOne(axis, ts, count) ==
    IF count # 0 THEN IntTrueDiv(axis - ts, count + 1)
    ELSE [raised |-> FALSE, val |-> 0]
StepByTarget(axis, ts, count) ==
    IF count # 0 THEN IntTrueDiv(axis - ts, ts) ELSE [raised |-> FALSE, val |-> 0]
StepOnAxis(axis, ts, count) ==
    IF count # 0 THEN IntTrueDiv(axis - ts, count) ELSE [raised |-> FALSE, val |-> 0]

\* the number in the file name: f'{img_name}_cropped{2*i + j}{ext}'
CropIndexRowMajor(col, row) == col * (crop_rows + 1) + row
CropIndex(col, row) == 2 * col + row

\* the box handed to img.crop, together with the index of its file name
CropBoxSwapped(col, row) ==
    [index  |-> CropIndex(col, row),
     left   |-> row * width_step,
     top    |-> col * height_step,
     right  |-> row * width_step + target_size,
     bottom |-> col * height_step + target_size]
CropBox(col, row) ==
    [index  |-> CropIndex(col, row),
     left   |-> col * width_step,
     top    |-> row * height_step,
     right  |-> col * width_step + target_size,
     bottom |-> row * height_step + target_size]

\* range(n)
InRangeShort(k, n) == 0 <= k /\ k < n - 1
InRange(k, n) == 0 <= k /\ k < n

\* cv2.haveImageReader(save_name): a file of that name exists and decodes
haveImageReaderNever(index) == FALSE
haveImageReaderNextName(index) == \E f \in files : f.index = index + 1
haveImageReader(index) == \E f \in files : f.index = index

\* new_img.save(save_name): the file of that name is created or replaced
Save(box) == {f \in files : f.index # box.index} \cup {box}

\* ------------------------------------------------------------------- Init

\* The images the command is run on: every small size with every small
\* target size, and the 1800 x 1200 image with the default target of 1024.
Inputs ==
    { <<a, b, t>> : a \in 1..MaxDim, b \in 1..MaxDim, t \in 1..MaxTarget }
        \cup { <<1800, 1200, 1024>> }

Init ==
    /\ \E inp \in Inputs :
          /\ w = inp[1]
          /\ h = inp[2]
          /\ target_size = inp[3]
    /\ pc = "open"
    /\ crop_cols = 0 /\ crop_rows = 0
    /\ width_step = 0 /\ height_step = 0
    /\ i = 0 /\ j = 0
    /\ plan = <<>>
    /\ files = {}
    /\ saved = <<>>
    /\ rerun = FALSE
    /\ cut_pc = "idle"
    /\ full_res_img_paths = <<>>
    /\ cut_pos = 1
    /\ cut_files = {}

\* ---------------------------------------------------------------- actions

\* The image is too small in both directions: `continue`.
Skip ==
    /\ pc = "open"
    /\ SkipImage(h, w, target_size)
    /\ pc' = "done"
    /\ UNCHANGED <<w, h, target_size, crop_cols, crop_rows, width_step,
                   height_step, i, j, plan, files, saved, rerun>>
    /\ UNCHANGED cutvars

\* Grid of the image: counts and steps, then entry into the crop loops.
ComputeGrid ==
    /\ pc = "open"
    /\ ~ SkipImage(h, w, target_size)
    /\ LET cols == CropCount(w, target_size)
           rows == CropCount(h, target_size)
           ws   == StepOnAxis(w, target_size, cols)
           hs   == StepOnAxis(h, target_size, rows)
       IN  /\ crop_cols' = cols
           /\ crop_rows' = rows
           /\ IF ws.raised \/ hs.raised
              THEN /\ pc' = "raised"
                   /\ UNCHANGED <<width_step, height_step>>
              ELSE /\ width_step' = ws.val
                   /\ height_step' = hs.val
                   /\ pc' = IF InRange(0, cols + 1) /\ InRange(0, rows + 1)
                            THEN "crops" ELSE "done"
    /\ i' = 0 /\ j' = 0
    /\ UNCHANGED <<w, h, target_size, plan, files, saved, rerun>>
    /\ UNCHANGED cutvars

\* Advance the nested loops `for i in range(crop_cols + 1)` /
\* `for j in range(crop_rows + 1)` past the position (i, j).
Advance ==
    IF InRange(j + 1, crop_rows + 1)
    THEN /\ j' = j + 1
         /\ i' = i
         /\ pc' = "crops"
    ELSE /\ j' = 0
         /\ i' = i + 1
         /\ pc' = IF InRange(i + 1, crop_cols + 1) THEN "crops" ELSE "done"

\* A readable file of this name exists: `continue`.
SkipExisting ==
    /\ pc = "crops"
    /\ haveImageReader(CropIndex(i, j))
    /\ plan' = Append(plan, CropBox(i, j))
    /\ Advance
    /\ UNCHANGED <<w, h, target_size, crop_cols, crop_rows, width_step,
                   height_step, files, saved, rerun>>
    /\ UNCHANGED cutvars

\* Crop the box and save it under the name of its index.
CropAndSave ==
    /\ pc = "crops"
    /\ ~ haveImageReader(CropIndex(i, j))
    /\ plan' = Append(plan, CropBox(i, j))
    /\ files' = Save(CropBox(i, j))
    /\ saved' = Append(saved, CropBox(i, j))
    /\ Advance
    /\ UNCHANGED <<w, h, target_size, crop_cols, crop_rows, width_step,
                   height_step, rerun>>
    /\ UNCHANGED cutvars

\* The command is run again on the same image and the same save directory.
Restart ==
    /\ pc = "done"
    /\ pc' = "open"
    /\ crop_cols' = 0 /\ crop_rows' = 0
    /\ width_step' = 0 /\ height_step' = 0
    /\ i' = 0 /\ j' = 0
    /\ plan' = <<>>
    /\ saved' = <<>>
    /\ rerun' = TRUE
    /\ UNCHANGED <<w, h, target_size, files>>
    /\ UNCHANGED cutvars

Next == Skip \/ ComputeGrid \/ SkipExisting \/ CropAndSave \/ Restart

Spec == Init /\ [][Next]_vars

\* --------------------------------------------------------------- cut-crop

\* A source image of cut-crop: the stem of its file name (two files of
\* accepted types may share one stem) and its size.
CutImages ==
    [stem : 1..MaxImages, w : 1..MaxSide, h : 1..MaxSide]

\* Sequences of at most n elements of S.
SeqUpTo(S, n) == UNION { [1..m -> S] : m \in 0..n }

\* cv2.imwrite(os.path.join(save_path, f'{img_name}_{i}.jpg'), new_img) for
\* i in range(n_crops): each file is created or replaced.
WriteCrops(dir, stem, side, step_size, wide) ==
    { f \in dir : f.stem # stem \/ ~ InRange(f.i, n_crops) }
        \cup { [stem |-> stem, i |-> k, side |-> side,
                left |-> IF wide THEN k * step_size ELSE 0,
                top  |-> IF wide THEN 0 ELSE k * step_size]
               : k \in 0..(n_crops - 1) }

CutInit ==
    /\ full_res_img_paths \in SeqUpTo(CutImages, MaxImages)
    /\ cut_pc = "loop"
    /\ cut_pos = 1
    /\ cut_files = {}
    /\ pc = "idle"
    /\ w = 0 /\ h = 0 /\ target_size = 0
    /\ crop_cols = 0 /\ crop_rows = 0
    /\ width_step = 0 /\ height_step = 0
    /\ i = 0 /\ j = 0
    /\ plan = <<>>
    /\ files = {}
    /\ saved = <<>>
    /\ rerun = FALSE

\* Wide image: n_crops squares of side h, moving from left to right.
CutWide ==
    /\ cut_pc = "loop"
    /\ cut_pos <= Len(full_res_img_paths)
    /\ LET img == full_res_img_paths[cut_pos]
       IN  /\ img.w > img.h
           /\ cut_files' = WriteCrops(cut_files, img.stem, img.h,
                                      (img.w - img.h) \div n_crops, TRUE)
    /\ cut_pos' = cut_pos + 1
    /\ UNCHANGED <<cut_pc, full_res_img_paths>>
    /\ UNCHANGED multivars

\* Tall image: n_crops squares of side w, moving from top to bottom.
CutTall ==
    /\ cut_pc = "loop"
    /\ cut_pos <= Len(full_res_img_paths)
    /\ LET img == full_res_img_paths[cut_pos]
       IN  /\ ~ (img.w > img.h)
           /\ img.h > img.w
           /\ cut_files' = WriteCrops(cut_files, img.stem, img.w,
                                      (img.h - img.w) \div n_crops, FALSE)
    /\ cut_pos' = cut_pos + 1
    /\ UNCHANGED <<cut_pc, full_res_img_paths>>
    /\ UNCHANGED multivars

\* Square image: `continue`, nothing is written.
CutSquare ==
    /\ cut_pc = "loop"
    /\ cut_pos <= Len(full_res_img_paths)
    /\ LET img == full_res_img_paths[cut_pos]
       IN  ~ (img.w > img.h) /\ ~ (img.h > img.w)
    /\ cut_pos' = cut_pos + 1
    /\ UNCHANGED <<cut_pc, full_res_img_paths, cut_files>>
    /\ UNCHANGED multivars

\* Sanity check after the loop: `assert diff == 0`.
CutSanityCheck ==
    /\ cut_pc = "loop"
    /\ cut_pos > Len(full_res_img_paths)
    /\ LET diff == 3 * Len(full_res_img_paths) - Cardinality(cut_files)
       IN  cut_pc' = IF diff = 0 THEN "returned" ELSE "AssertionError"
    /\ UNCHANGED <<full_res_img_paths, cut_pos, cut_files>>
    /\ UNCHANGED multivars

CutNext == CutWide \/ CutTall \/ CutSquare \/ CutSanityCheck

SpecCut == CutInit /\ [][CutNext]_vars

\* ------------------------------------------------------------- properties

\* C1: every rectangle the planner produces lies inside the image and is a
\* target_size square: 0 <= left, right <= width, 0 <= top, bottom <= height,
\* right - left = bottom - top = target_size.
C1_RectanglesInsideImage ==
    \A k \in 1..Len(plan) :
        /\ 0 <= plan[k].left
        /\ plan[k].right <= w
        /\ 0 <= plan[k].top
        /\ plan[k].bottom <= h
        /\ plan[k].right - plan[k].left = target_size
        /\ plan[k].bottom - plan[k].top = target_size

\* C2: when target_size exceeds both the width and the height, the image is
\* skipped: the plan is empty and no crop is written for it.
C2_TooSmallImageSkipped ==
    (target_size > w /\ target_size > h) => (plan = <<>> /\ files = {})

C2_Witness ==
    pc = "done" /\ target_size > w /\ target_size > h /\ plan = <<>>

\* C3: for an image that is not skipped, the finished plan holds exactly
\* (crop_cols + 1) * (crop_rows + 1) rectangles.
C3_RectangleCount ==
    (pc = "done" /\ ~ (target_size > w /\ target_size > h))
        => Len(plan) = (crop_cols + 1) * (crop_rows + 1)

C3_Witness ==
    pc = "done" /\ crop_cols >= 1 /\ crop_rows >= 2 /\ Len(plan) >= 6

\* C4 as stated: on every axis longer than target_size the first tile starts
\* at 0 and the last tile ends exactly at the image edge,
\* crop_count * step + target_size = axis_size.
C4_LastTileEndsAtEdge ==
    (pc = "done" /\ plan # <<>>)
        => /\ w > target_size
                => /\ plan[1].left = 0
                   /\ plan[Len(plan)].right = w
                   /\ crop_cols * width_step + target_size = w
           /\ h > target_size
                => /\ plan[1].top = 0
                   /\ plan[Len(plan)].bottom = h
                   /\ crop_rows * height_step + target_size = h

\* C4 as amended: on every axis longer than target_size the first tile
\* starts at 0 and the last tile ends at or before the image edge, exactly
\* at the edge if and only if crop_count divides axis_size - target_size.
C4_LastTileEndsWithinImage ==
    (pc = "done" /\ plan # <<>>)
        => /\ w > target_size
                => /\ plan[1].left = 0
                   /\ plan[Len(plan)].right = crop_cols * width_step + target_size
                   /\ plan[Len(plan)].right <= w
                   /\ (plan[Len(plan)].right = w)
                        <=> ((w - target_size) % crop_cols = 0)
           /\ h > target_size
                => /\ plan[1].top = 0
                   /\ plan[Len(plan)].bottom = crop_rows * height_step + target_size
                   /\ plan[Len(plan)].bottom <= h
                   /\ (plan[Len(plan)].bottom = h)
                        <=> ((h - target_size) % crop_rows = 0)

C4_Witness ==
    /\ pc = "done" /\ plan # <<>>
    /\ w > target_size /\ h > target_size
    /\ plan[Len(plan)].right < w
    /\ plan[Len(plan)].bottom = h

\* C5: on every axis longer than target_size the step is smaller than
\* target_size, so consecutive tiles overlap and every coordinate from 0 to
\* the far edge of the last tile lies in at least one tile.
C5_StepBelowTargetNoGap ==
    (pc = "done" /\ plan # <<>>)
        => /\ w > target_size
                => /\ width_step < target_size
                   /\ \A x \in 0..(crop_cols * width_step + target_size - 1) :
                         \E k \in 1..Len(plan) :
                             plan[k].left <= x /\ x < plan[k].right
           /\ h > target_size
                => /\ height_step < target_size
                   /\ \A y \in 0..(crop_rows * height_step + target_size - 1) :
                         \E k \in 1..Len(plan) :
                             plan[k].top <= y /\ y < plan[k].bottom

C5_Witness ==
    /\ pc = "done" /\ plan # <<>>
    /\ w > target_size /\ h > target_size
    /\ crop_cols >= 2 /\ width_step >= 1 /\ crop_rows >= 1

\* C6: per axis, an axis no longer than target_size gets count 0 and step 0;
\* a longer axis gets the count nearest to axis_size / target_size, an exact
\* half going to the even count (1.5 -> 2, 2.5 -> 2), and the step
\* floor((axis_size - target_size) / count); 1800 x 1200 with target 1024
\* gives crop_cols = 2, width_step = 388, crop_rows = 1, height_step = 176.
C6_CountAndStepRule ==
    pc \in {"crops", "done"}
        => /\ \A ax \in { <<w, crop_cols, width_step>>,
                          <<h, crop_rows, height_step>> } :
                LET axis == ax[1]
                    c    == ax[2]
                    s    == ax[3]
                    d    == 2 * axis - 2 * target_size * c
                IN  IF axis <= target_size
                    THEN c = 0 /\ s = 0
                    ELSE /\ \/ (0 - target_size < d /\ d < target_size)
                            \/ (d \in {target_size, 0 - target_size} /\ c % 2 = 0)
                         /\ s * c <= axis - target_size
                         /\ axis - target_size < (s + 1) * c
                         /\ (2 * axis = 3 * target_size) => c = 2
                         /\ (2 * axis = 5 * target_size) => c = 2
           /\ (w = 1800 /\ h = 1200 /\ target_size = 1024 /\ plan # <<>>)
                => /\ crop_cols = 2 /\ width_step = 388
                   /\ crop_rows = 1 /\ height_step = 176

C6_Witness ==
    /\ pc = "crops"
    /\ 2 * w = 5 * target_size /\ crop_cols = 2
    /\ 2 * h = 3 * target_size /\ crop_rows = 2

\* C7: rectangles are emitted columns outer, rows inner; the rectangle of
\* position (i, j) has left = i * width_step, top = j * height_step,
\* right = left + target_size, bottom = top + target_size, index = 2*i + j.
C7_NestedOrder ==
    pc \in {"crops", "done"}
        => /\ pc = "crops" => Len(plan) = i * (crop_rows + 1) + j
           /\ \A k \in 1..Len(plan) :
                LET ci == (k - 1) \div (crop_rows + 1)
                    rj == (k - 1) % (crop_rows + 1)
                IN  /\ ci <= crop_cols
                    /\ plan[k] = [index  |-> 2 * ci + rj,
                                  left   |-> ci * width_step,
                                  top    |-> rj * height_step,
                                  right  |-> ci * width_step + target_size,
                                  bottom |-> rj * height_step + target_size]

C7_Witness ==
    /\ pc = "done"
    /\ crop_cols >= 2 /\ crop_rows >= 1 /\ crop_cols # crop_rows
    /\ width_step >= 1 /\ height_step >= 1 /\ width_step # height_step
    /\ Len(plan) = (crop_cols + 1) * (crop_rows + 1)

\* C8: when width = height = target_size the plan is the single rectangle
\* with index 0 and bounds (0, 0, target_size, target_size).
C8_ExactFitSingleRectangle ==
    (pc = "done" /\ w = target_size /\ h = target_size)
        => plan = << [index |-> 0, left |-> 0, top |-> 0,
                      right |-> target_size, bottom |-> target_size] >>

C8_Witness ==
    pc = "done" /\ w = target_size /\ h = target_size /\ Len(plan) = 1

\* C9: the planner never raises: the step division is evaluated only with a
\* count of at least 1, and a count of 0 gives the step 0.
C9_NeverRaises ==
    /\ pc # "raised"
    /\ pc \in {"crops", "done"}
         => /\ crop_cols >= 0 /\ crop_rows >= 0
            /\ crop_cols = 0 => width_step = 0
            /\ crop_rows = 0 => height_step = 0

C9_Witness ==
    pc = "crops" /\ crop_cols = 0 /\ crop_rows >= 1 /\ height_step >= 1

\* C10: within one plan the index 2*i + j is injective over the grid
\* positions exactly when crop_rows <= 1 or crop_cols = 0; with
\* crop_rows >= 2 and crop_cols >= 1 the positions (1, 0) and (0, 2) both
\* get index 2.
C10_IndexInjectiveIff ==
    (pc = "done" /\ plan # <<>>)
        => /\ (\A a, b \in 1..Len(plan) :
                  plan[a].index = plan[b].index => a = b)
                <=> (crop_rows <= 1 \/ crop_cols = 0)
           /\ (crop_rows >= 2 /\ crop_cols >= 1)
                => /\ plan[3].index = 2
                   /\ plan[3].left = 0
                   /\ plan[3].top = 2 * height_step
                   /\ plan[crop_rows + 2].index = 2
                   /\ plan[crop_rows + 2].left = width_step
                   /\ plan[crop_rows + 2].top = 0

C10_Witness ==
    pc = "done" /\ plan # <<>> /\ crop_rows >= 2 /\ crop_cols >= 1

\* C11: after one image is processed into an empty save directory, the file
\* of every index k holds the crop of the first grid position, in loop
\* order, whose index is k; later positions with that index are skipped and
\* never saved, so the number of files written is the number of distinct
\* indices, not the number of rectangles.
C11_FirstPositionWins ==
    (pc = "done" /\ ~ rerun)
        => /\ files = { saved[n] : n \in 1..Len(saved) }
           /\ Len(saved) = Cardinality({ plan[k].index : k \in 1..Len(plan) })
           /\ Cardinality(files) = Len(saved)
           /\ \A k \in 1..Len(plan) :
                \E f \in files :
                    /\ f.index = plan[k].index
                    /\ \E m \in 1..k :
                          /\ plan[m] = f
                          /\ \A n \in 1..(m - 1) : plan[n].index # f.index
           /\ \A f \in files : \E k \in 1..Len(plan) : plan[k].index = f.index

C11_Witness ==
    /\ pc = "done" /\ ~ rerun
    /\ Len(saved) >= 3 /\ Len(plan) > Len(saved)
    /\ \E a, b \in 1..Len(plan) :
          /\ a < b
          /\ plan[a].index = plan[b].index
          /\ plan[a] # plan[b]
          /\ plan[a] \in files /\ plan[b] \notin files

\* C12: a crop is saved only when no readable file of its name exists, so no
\* existing file is ever replaced or removed, and a run that follows a
\* completed run over the same image and target_size writes nothing and
\* leaves the save directory unchanged.
C12_NeverOverwrites ==
    [][ /\ files \subseteq files'
        /\ files' # files
             => /\ Len(saved') = Len(saved) + 1
                /\ files' = files \cup { saved'[Len(saved')] }
                /\ \A f \in files : f.index # saved'[Len(saved')].index
        /\ Len(saved') > Len(saved) => files' # files
        /\ rerun => (files' = files /\ saved' = <<>>)
      ]_vars

C12_Witness ==
    /\ pc = "done" /\ rerun
    /\ Len(plan) >= 6 /\ saved = <<>>
    /\ Cardinality(files) >= 4

\* C13: on every axis longer than target_size the far edge of the last tile,
\* e = crop_count * step + target_size, falls short of the image edge by
\* less than crop_count pixels: axis_size - crop_count < e <= axis_size.
C13_UndershootBelowCount ==
    pc \in {"crops", "done"}
        => /\ w > target_size
                => /\ w - crop_cols < crop_cols * width_step + target_size
                   /\ crop_cols * width_step + target_size <= w
           /\ h > target_size
                => /\ h - crop_rows < crop_rows * height_step + target_size
                   /\ crop_rows * height_step + target_size <= h

C13_Witness ==
    /\ pc = "done"
    /\ w > target_size /\ h > target_size
    /\ width_step >= 1 /\ height_step >= 1
    /\ crop_cols * width_step + target_size = w - crop_cols + 1
    /\ crop_cols >= 2
    /\ crop_rows * height_step + target_size = h

\* C14 as stated: on every axis longer than target_size the step is at
\* least 1, so the rectangles of distinct grid positions of one plan are
\* pairwise distinct regions.
C14_StepPositiveDistinctCrops ==
    pc \in {"crops", "done"}
        => /\ w > target_size => width_step >= 1
           /\ h > target_size => height_step >= 1
           /\ \A a, b \in 1..Len(plan) :
                a # b => \/ plan[a].left # plan[b].left
                         \/ plan[a].top # plan[b].top

\* C14 as amended: for target_size >= 3 the step on every axis longer than
\* target_size is at least 1 and the rectangles of distinct grid positions
\* are pairwise distinct regions; for target_size = 1, and for
\* target_size = 2 with axis_size = 3, the step of such an axis is 0.
C14_StepPositiveFromTargetThree ==
    pc \in {"crops", "done"}
        => /\ target_size >= 3
                => /\ w > target_size => width_step >= 1
                   /\ h > target_size => height_step >= 1
                   /\ \A a, b \in 1..Len(plan) :
                        a # b => \/ plan[a].left # plan[b].left
                                 \/ plan[a].top # plan[b].top
           /\ target_size = 1
                => /\ w > target_size => width_step = 0
                   /\ h > target_size => height_step = 0
           /\ target_size = 2
                => /\ w > target_size => (width_step = 0 <=> w = 3)
                   /\ h > target_size => (height_step = 0 <=> h = 3)

C14_Witness ==
    /\ pc = "done"
    /\ target_size >= 3 /\ target_size < 1024
    /\ w > target_size /\ h > target_size
    /\ crop_cols >= 2 /\ crop_rows >= 1
    /\ Len(plan) = (crop_cols + 1) * (crop_rows + 1)

\* C15: when cut-crop runs over any set of source images into an empty save
\* directory, its final sanity assertion holds: the directory then holds
\* 3 .jpg files per source image found, every image having contributed
\* n_crops = 3 square crops whose side is its shorter dimension.
C15_SanityAssertionHolds ==
    /\ cut_pc # "AssertionError"
    /\ cut_pc = "returned"
         => /\ Cardinality(cut_files) = 3 * Len(full_res_img_paths)
            /\ \A k \in 1..Len(full_res_img_paths) :
                 LET img == full_res_img_paths[k]
                 IN  Cardinality({ f \in cut_files :
                        /\ f.stem = img.stem
                        /\ f.side = IF img.w < img.h THEN img.w ELSE img.h })
                     = n_crops

====
